---- MODULE Spec2Model ----
(***************************************************************************)
(* The Oracle Vision mint console (src/unnamed/part_001, the contract-     *)
(* backed MintPage component): its React state, the injected wallet it     *)
(* talks to, and every async operation cut at its await points.            *)
(*                                                                         *)
(* A step of the model is one JavaScript task: the synchronous code that   *)
(* runs between two awaits of one async function, or one event handler.    *)
(* React state written inside such a piece of code is visible to the next  *)
(* one (the component re-renders before the next click or response is      *)
(* handled), so a handler reads the state of the moment it is invoked.     *)
(* The log's timestamps (nowIso) are left out: an entry is its message.    *)
(* push is modelled as the code computes it (newest first, 30 entries);    *)
(* the variable log holds the newest LogWindow entries of the page's log,  *)
(* which is what the properties below read. SpecLog keeps the log in full  *)
(* and its entries' timestamps, for the console and for the first two      *)
(* mint pages of src/app/mint/page.tsx, whose logs differ in their bound.  *)
(* SpecV3 is mint() of the third mint page, SpecScan is runScan() of the   *)
(* Bull Finder home page (src/unnamed/part_003), SpecMeta is the console   *)
(* for a contract whose name and symbol may be empty, and SpecFair is the  *)
(* console when every awaited call is eventually answered.                 *)
(***************************************************************************)
EXTENDS Integers, Sequences, FiniteSets, TLC

VARIABLES
  page,            \* which page is loaded (fixed for a page load)
  ethereum,        \* window.ethereum is present (fixed for a page load)
  account,         \* useState account: string | null
  chainId,         \* useState chainId: string | null
  collectionName,  \* useState collectionName
  symbol,          \* useState symbol
  mintPriceWei,    \* useState mintPriceWei: bigint | null
  busy,            \* useState busy
  txHash,          \* useState txHash: string | null
  log,             \* useState log, newest first (its newest LogWindow entries)
  tasks,           \* the async functions in flight, each at an await
  wAcc,            \* the wallet: first account exposed to the page, or Null
  wChain,          \* the wallet: its current chain
  evq,             \* provider events emitted and not yet delivered (FIFO)
  cName, cSymbol, cPrice,   \* what the contract's reads return
  nTx,             \* transactions the wallet has submitted so far
  nCmd, nEnv,      \* user commands / wallet-side changes so far (bounded)
  running,         \* Bull Finder page: useState running
  errText,         \* Bull Finder page: useState errText
  lastRun,         \* Bull Finder page: useState lastRun (the time of the scan)
  signals,         \* Bull Finder page: useState signals (their symbols)
  scans,           \* Bull Finder page: the runScan() calls in flight
  now              \* Bull Finder page: the clock nowIso() reads

vars == << page, ethereum, account, chainId, collectionName, symbol, mintPriceWei,
           busy, txHash, log, tasks, wAcc, wChain, evq, cName, cSymbol, cPrice,
           nTx, nCmd, nEnv, running, errText, lastRun, signals, scans, now >>

----------------------------------------------------------------------------
(* Bounds of the model *)
MaxTasks == 2
MaxCmd == 2
MaxEnv == 1
MaxPending == 1
LogWindow == 2
MaxScans == 2
MaxNow == 2

(* Program constants *)
LogCap == 30
LogCapV1 == 20       \* app/mint/page.tsx, first page: log()
LogCapV2 == 25       \* app/mint/page.tsx, second page: push()
NoPrice == -1        \* mintPriceWei = null
NoReceipt == -1      \* no receipt: tx.wait() resolves with null
Receipts == {1, 0, NoReceipt}   \* receipt.status (1 success, 0 reverted), or no receipt
ETH_MAINNET_CHAIN_ID_HEX == "0x1"

Null == "null"
Dash == "-"          \* the placeholder the page shows (U+2014 in the source)
Accounts == {"0xA11CE00000000000000000000000000000000001",
             "0xB0B0000000000000000000000000000000000002"}
Chains == {"0x1", "0x5"}
Metadata == {<< "", "" >>, << "Oracle Vision", "VISION" >>}   \* name(), symbol()
Prices == {0, 10}
Slots == 1..MaxTasks

(* The errors a provider or contract call can reject with: the EIP-1193    *)
(* code, and the message text. ErrUserText is ethers' ACTION_REJECTED      *)
(* wording, whose text contains "user rejected" in mixed letter case.      *)
ErrUser4001 == [code |-> 4001, msg |-> "MetaMask Tx Signature: User denied transaction signature."]
ErrUserText == [code |-> 0, msg |-> "User Rejected the request."]
ErrOther == [code |-> 0, msg |-> "execution reverted"]
Errors == {ErrUser4001, ErrUserText, ErrOther}

\* (mutant) msg.includes("user rejected"), without toLowerCase()
IncludesUserRejectedExact(m) == m \in {}

(* msg.toLowerCase().includes("user rejected"), over the messages above *)
IncludesUserRejected(m) == m \in {"User Rejected the request."}

humanizeEthersError(e) ==
  IF e.code = 4001 THEN "User rejected the transaction."
  ELSE IF IncludesUserRejected(e.msg) THEN "User rejected the transaction."
  ELSE e.msg

(* addr.slice(0, 6) + "…" + addr.slice(-4), over the addresses above *)
shortAddr(a) ==
  IF a = Null THEN Dash
  ELSE IF a = "0xA11CE00000000000000000000000000000000001" THEN "0xA11C...0001"
  ELSE "0xB0B0...0002"

(* ethers.formatEther: wei to a decimal ether string, over Prices *)
formatEther(p) ==
  IF p = 0 THEN "0.0"
  ELSE "0.00000000000000001"

----------------------------------------------------------------------------
(* Derived values of a render *)
isConnected == account # Null
isMainnet == chainId # Null /\ chainId = ETH_MAINNET_CHAIN_ID_HEX
hasProvider == ethereum

status ==
  IF ~hasProvider THEN "MetaMask not found"
  ELSE IF ~isConnected THEN "Not connected"
  ELSE IF ~isMainnet THEN "Wrong network (switch to ETH)"
  ELSE "Ready (ETH mainnet)"

(* push(msg): newest first, at most LogCap entries *)
Take(s, n) == SubSeq(s, 1, IF Len(s) < n THEN Len(s) ELSE n)
Entry(m, a, b) == [msg |-> m, a |-> a, b |-> b]
\* (mutant) the new entry goes to the end
pushOldestFirst(l, e) == Take(l \o <<e>>, LogCap)
push(l, e) == Take(<<e>> \o l, LogCap)
\* the same function of the first and second mint page
logV1(l, e) == Take(<<e>> \o l, LogCapV1)
pushV2(l, e) == Take(<<e>> \o l, LogCapV2)
Window(l) == Take(l, LogWindow)
Pushed(l, e) == Window(push(l, e))

(* The task table: one slot per async function in flight *)
Idle == [op |-> "idle", pc |-> "", acc |-> Null, value |-> NoPrice, hash |-> Null,
         receipt |-> NoReceipt]
Task(o, p) == [Idle EXCEPT !.op = o, !.pc = p]
IsFree(i) == tasks[i].op = "idle"
HasFree == \E i \in Slots : IsFree(i)
FreeSlot == CHOOSE i \in Slots : IsFree(i) /\ \A j \in Slots : j < i => ~IsFree(j)

wallet == << wAcc, wChain, evq >>
contract == << cName, cSymbol, cPrice >>
cache == << collectionName, symbol, mintPriceWei >>
snapshot == << account, chainId >>
budget == << nCmd, nEnv >>
finder == << running, errText, lastRun, signals, scans, now >>

(* The Bull Finder page (src/unnamed/part_003) as its useState calls leave *)
(* it: no scan yet. A runScan() in flight is at "fetch" or at "json", and  *)
(* res is the answer that has arrived for it and is not yet handled.       *)
NeverRun == 0        \* lastRun = ""
ScanSlots == 1..MaxScans
NoAnswer == [kind |-> "none", ok |-> FALSE, msg |-> "", shape |-> "", items |-> << >>]
NoScan == [pc |-> "idle", res |-> NoAnswer]
FinderState ==
  /\ running = FALSE
  /\ errText = ""
  /\ lastRun = NeverRun
  /\ signals = << >>
  /\ scans = [i \in ScanSlots |-> NoScan]
  /\ now = 1

\* the state once the mount effect has run, for a contract whose name() and
\* symbol() return meta and a wallet that exposes one of accs (or none)
Mounted(meta, accs) ==
  /\ page = "console"
  /\ FinderState
  /\ ethereum \in BOOLEAN
  /\ account = Null /\ chainId = Null
  /\ collectionName = Dash /\ symbol = Dash /\ mintPriceWei = NoPrice
  /\ busy = FALSE /\ txHash = Null /\ log = << >>
  /\ wAcc \in accs \cup {Null}
  /\ wChain \in Chains
  /\ evq = << >>
  /\ \E m \in meta : cName = m[1] /\ cSymbol = m[2]
  /\ cPrice \in Prices \ {0}
  /\ nTx = 0 /\ nCmd = 0 /\ nEnv = 0
  \* the mount effect has run: refreshWalletState() and loadContractReads()
  \* are both in flight when a provider exists
  /\ tasks = [i \in Slots |->
                IF ~ethereum THEN Idle
                ELSE IF i = 1 THEN Task("refreshWalletState", "eth_accounts")
                ELSE IF i = 2 THEN Task("loadContractReads", "getSigner")
                ELSE Idle]

Init == Mounted({<< "Oracle Vision", "VISION" >>}, {"0xA11CE00000000000000000000000000000000001"})

----------------------------------------------------------------------------
(* refreshWalletState(), on its own or awaited by switchToMainnet()        *)

\* where a task goes when its refreshWalletState() returns
AfterRefresh(t) ==
  IF t.op = "switchToMainnet" THEN [Idle EXCEPT !.op = t.op, !.pc = "getSigner"]
  ELSE Idle

\* eth_accounts answers
RefreshAccounts(i) ==
  /\ tasks[i].op \in {"refreshWalletState", "switchToMainnet"}
  /\ tasks[i].pc = "eth_accounts"
  /\ \/ /\ tasks' = [tasks EXCEPT ![i].pc = "eth_chainId", ![i].acc = wAcc]
        /\ UNCHANGED log
     \/ \E e \in {ErrOther} :
          /\ log' = Pushed(log, Entry("refreshWalletState error", humanizeEthersError(e), ""))
          /\ tasks' = [tasks EXCEPT ![i] = AfterRefresh(tasks[i])]
  /\ UNCHANGED << page, ethereum, finder, snapshot, cache, busy, txHash, wallet, contract, nTx, budget >>

\* (mutant) refreshWalletState() without setChainId
RefreshChainIdKeepsChain(i) ==
  /\ tasks[i].op \in {"refreshWalletState", "switchToMainnet"}
  /\ tasks[i].pc = "eth_chainId"
  /\ account' = tasks[i].acc
  /\ tasks' = [tasks EXCEPT ![i] = AfterRefresh(tasks[i])]
  /\ UNCHANGED << page, ethereum, finder, chainId, log, cache, busy, txHash, wallet, contract,
                  nTx, budget >>

\* eth_chainId answers: setAccount(acc ?? null); setChainId(cid ?? null)
RefreshChainId(i) ==
  /\ tasks[i].op \in {"refreshWalletState", "switchToMainnet"}
  /\ tasks[i].pc = "eth_chainId"
  /\ \/ /\ account' = tasks[i].acc
        /\ chainId' = wChain
        /\ UNCHANGED log
     \/ \E e \in {ErrOther} :
          /\ log' = Pushed(log, Entry("refreshWalletState error", humanizeEthersError(e), ""))
          /\ UNCHANGED snapshot
  /\ tasks' = [tasks EXCEPT ![i] = AfterRefresh(tasks[i])]
  /\ UNCHANGED << page, ethereum, finder, cache, busy, txHash, wallet, contract, nTx, budget >>

----------------------------------------------------------------------------
(* loadContractReads(), on its own or awaited by connect() and             *)
(* switchToMainnet()                                                       *)

LoadOps == {"loadContractReads", "connect", "switchToMainnet"}

\* provider.getSigner().catch(() => null) settles: either way the reads go out
LoadSigner(i) ==
  /\ tasks[i].op \in LoadOps
  /\ tasks[i].pc = "getSigner"
  /\ tasks' = [tasks EXCEPT ![i].pc = "reads"]
  /\ UNCHANGED << page, ethereum, finder, snapshot, cache, busy, txHash, log, wallet, contract, nTx, budget >>

\* (mutant) the setters store what the reads returned
OrEmpty(x) == x

\* what the setters store: setCollectionName(n || "—"), setSymbol(s || "—"),
\* setMintPriceWei(p ?? null)
OrDash(x) == IF x = "" THEN Dash ELSE x

\* (mutant) each setter runs as soon as its own read has resolved
SetterRunsEarly(ok, all) == ok

\* whether a setter of loadContractReads() runs, for a read that resolved (ok)
\* or not: all three setters come after `await Promise.all([...])`
SetterRuns(ok, all) == all

\* (mutant) connect() and switchToMainnet() return without their finally
LoadReadsNoFinally(i) ==
  /\ tasks[i].op \in LoadOps
  /\ tasks[i].pc = "reads"
  /\ \E okN, okS, okP \in BOOLEAN :
       LET all == okN /\ okS /\ okP IN
       /\ collectionName' = IF SetterRuns(okN, all) THEN OrDash(cName) ELSE collectionName
       /\ symbol' = IF SetterRuns(okS, all) THEN OrDash(cSymbol) ELSE symbol
       /\ mintPriceWei' = IF SetterRuns(okP, all) THEN cPrice ELSE mintPriceWei
       /\ log' = IF all
                 THEN Pushed(Pushed(log, Entry("Loaded contract", cName, cSymbol)),
                             Entry("Mint price", formatEther(cPrice), ""))
                 ELSE Pushed(log, Entry("Contract read failed",
                                        humanizeEthersError(ErrOther), ""))
  /\ busy' = busy
  /\ tasks' = [tasks EXCEPT ![i] = Idle]
  /\ UNCHANGED << page, ethereum, finder, snapshot, txHash, wallet, contract, nTx, budget >>

\* Promise.all([name(), symbol(), MINT_PRICE()]) settles: each read resolves
\* with the contract's value or rejects
LoadReads(i) ==
  /\ tasks[i].op \in LoadOps
  /\ tasks[i].pc = "reads"
  /\ \E okN, okS, okP \in BOOLEAN :
       LET all == okN /\ okS /\ okP IN
       /\ collectionName' = IF SetterRuns(okN, all) THEN OrDash(cName) ELSE collectionName
       /\ symbol' = IF SetterRuns(okS, all) THEN OrDash(cSymbol) ELSE symbol
       /\ mintPriceWei' = IF SetterRuns(okP, all) THEN cPrice ELSE mintPriceWei
       /\ log' = IF all
                 THEN Pushed(Pushed(log, Entry("Loaded contract", cName, cSymbol)),
                             Entry("Mint price", formatEther(cPrice), ""))
                 ELSE Pushed(log, Entry("Contract read failed",
                                        humanizeEthersError(ErrOther), ""))
  \* connect() and switchToMainnet() end here: finally { setBusy(false) }
  /\ busy' = IF tasks[i].op = "loadContractReads" THEN busy ELSE FALSE
  /\ tasks' = [tasks EXCEPT ![i] = Idle]
  /\ UNCHANGED << page, ethereum, finder, snapshot, txHash, wallet, contract, nTx, budget >>

\* loadContractReads() is called: getProvider(), then getSigner() goes out
loadContractReads ==
  IF ~ethereum
  THEN UNCHANGED tasks
  ELSE /\ HasFree
       /\ tasks' = [tasks EXCEPT ![FreeSlot] = Task("loadContractReads", "getSigner")]

----------------------------------------------------------------------------
(* The wallet side of a request that may change the wallet: the change is  *)
(* announced to the page by a provider event (EIP-1193), queued in evq.    *)

Event(t, v) == [type |-> t, val |-> v]
CanEmit == Len(evq) < MaxPending

----------------------------------------------------------------------------
(* connect()                                                               *)

\* (mutant) connect() without its provider check
connectUnchecked ==
  /\ HasFree
  /\ busy' = TRUE
  /\ tasks' = [tasks EXCEPT ![FreeSlot] = Task("connect", "eth_requestAccounts")]
  /\ UNCHANGED log

\* the synchronous start of connect()
connect ==
  IF ~ethereum
  THEN /\ log' = Pushed(log, Entry("MetaMask not found.", "", ""))
       /\ UNCHANGED << busy, tasks >>
  ELSE /\ HasFree
       /\ busy' = TRUE
       /\ tasks' = [tasks EXCEPT ![FreeSlot] = Task("connect", "eth_requestAccounts")]
       /\ UNCHANGED log

\* (mutant) a rejected eth_requestAccounts leaves busy set (no finally)
ConnectAccountsStaysBusy(i) ==
  /\ tasks[i].op = "connect"
  /\ tasks[i].pc = "eth_requestAccounts"
  /\ \/ /\ wAcc # Null
        /\ tasks' = [tasks EXCEPT ![i].pc = "eth_chainId", ![i].acc = wAcc]
        /\ UNCHANGED << log, busy, wallet >>
     \/ \E e \in {ErrUser4001, ErrOther} :
          /\ log' = Pushed(log, Entry("Connect failed", humanizeEthersError(e), ""))
          /\ tasks' = [tasks EXCEPT ![i] = Idle]
          /\ UNCHANGED << busy, wallet >>
  /\ UNCHANGED << page, ethereum, finder, snapshot, cache, txHash, contract, nTx, budget >>

\* eth_requestAccounts answers: the accounts already exposed, or the user
\* approves one in the wallet's prompt, or the request is rejected
ConnectAccounts(i) ==
  /\ tasks[i].op = "connect"
  /\ tasks[i].pc = "eth_requestAccounts"
  /\ \/ /\ wAcc # Null
        /\ tasks' = [tasks EXCEPT ![i].pc = "eth_chainId", ![i].acc = wAcc]
        /\ UNCHANGED << log, busy, wallet >>
     \/ /\ wAcc = Null
        /\ CanEmit
        /\ \E a \in Accounts :
             /\ wAcc' = a
             /\ evq' = Append(evq, Event("accountsChanged", a))
             /\ tasks' = [tasks EXCEPT ![i].pc = "eth_chainId", ![i].acc = a]
        /\ UNCHANGED << log, busy, wChain >>
     \/ \E e \in {ErrUser4001, ErrOther} :
          /\ log' = Pushed(log, Entry("Connect failed", humanizeEthersError(e), ""))
          /\ busy' = FALSE
          /\ tasks' = [tasks EXCEPT ![i] = Idle]
          /\ UNCHANGED wallet
  /\ UNCHANGED << page, ethereum, finder, snapshot, cache, txHash, contract, nTx, budget >>

\* (mutant) connect() ends once the snapshot is written, without the reads
ConnectChainIdNoReads(i) ==
  /\ tasks[i].op = "connect"
  /\ tasks[i].pc = "eth_chainId"
  /\ account' = tasks[i].acc
  /\ chainId' = wChain
  /\ log' = Pushed(Pushed(log, Entry("Connected", shortAddr(tasks[i].acc), "")),
                   Entry("Chain", wChain, ""))
  /\ busy' = FALSE
  /\ tasks' = [tasks EXCEPT ![i] = Idle]
  /\ UNCHANGED << page, ethereum, finder, cache, txHash, wallet, contract, nTx, budget >>

\* eth_chainId answers: the snapshot is written, then loadContractReads()
ConnectChainId(i) ==
  /\ tasks[i].op = "connect"
  /\ tasks[i].pc = "eth_chainId"
  /\ \/ /\ account' = tasks[i].acc
        /\ chainId' = wChain
        /\ log' = Pushed(Pushed(log, Entry("Connected", shortAddr(tasks[i].acc), "")),
                         Entry("Chain", wChain, ""))
        /\ tasks' = [tasks EXCEPT ![i] = Task("connect", "getSigner")]
        /\ UNCHANGED busy
     \/ \E e \in {ErrOther} :
          /\ log' = Pushed(log, Entry("Connect failed", humanizeEthersError(e), ""))
          /\ busy' = FALSE
          /\ tasks' = [tasks EXCEPT ![i] = Idle]
          /\ UNCHANGED snapshot
  /\ UNCHANGED << page, ethereum, finder, cache, txHash, wallet, contract, nTx, budget >>

----------------------------------------------------------------------------
(* switchToMainnet()                                                       *)

switchToMainnet ==
  IF ~ethereum
  THEN UNCHANGED << busy, tasks >>
  ELSE /\ HasFree
       /\ busy' = TRUE
       /\ tasks' = [tasks EXCEPT ![FreeSlot] =
                      Task("switchToMainnet", "wallet_switchEthereumChain")]

\* wallet_switchEthereumChain answers
SwitchAnswer(i) ==
  /\ tasks[i].op = "switchToMainnet"
  /\ tasks[i].pc = "wallet_switchEthereumChain"
  /\ \/ /\ IF wChain = ETH_MAINNET_CHAIN_ID_HEX
           THEN UNCHANGED wallet
           ELSE /\ CanEmit
                /\ wChain' = ETH_MAINNET_CHAIN_ID_HEX
                /\ evq' = Append(evq, Event("chainChanged", ETH_MAINNET_CHAIN_ID_HEX))
                /\ UNCHANGED wAcc
        /\ log' = Pushed(log, Entry("Switched to Ethereum Mainnet.", "", ""))
        \* await refreshWalletState()
        /\ tasks' = [tasks EXCEPT ![i].pc = "eth_accounts"]
        /\ UNCHANGED busy
     \/ \E e \in {ErrUser4001, ErrOther} :
          /\ log' = Pushed(log, Entry("Switch failed", humanizeEthersError(e), ""))
          /\ busy' = FALSE
          /\ tasks' = [tasks EXCEPT ![i] = Idle]
          /\ UNCHANGED wallet
  /\ UNCHANGED << page, ethereum, finder, snapshot, cache, txHash, contract, nTx, budget >>

----------------------------------------------------------------------------
(* mint()                                                                  *)

\* (mutant) mint() without setTxHash(null)
mintKeepsHash ==
  IF ~ethereum
  THEN UNCHANGED << busy, txHash, log, tasks >>
  ELSE IF ~isConnected
  THEN /\ log' = Pushed(log, Entry("Connect your wallet first.", "", ""))
       /\ UNCHANGED << busy, txHash, tasks >>
  ELSE IF ~isMainnet
  THEN /\ log' = Pushed(log, Entry("Switch to Ethereum Mainnet first.", "", ""))
       /\ UNCHANGED << busy, txHash, tasks >>
  ELSE /\ HasFree
       /\ busy' = TRUE
       /\ tasks' = [tasks EXCEPT ![FreeSlot] = Task("mint", "getSigner")]
       /\ UNCHANGED << log, txHash >>

\* the synchronous start of mint(): its own checks, then busy and txHash
mint ==
  IF ~ethereum
  THEN UNCHANGED << busy, txHash, log, tasks >>
  ELSE IF ~isConnected
  THEN /\ log' = Pushed(log, Entry("Connect your wallet first.", "", ""))
       /\ UNCHANGED << busy, txHash, tasks >>
  ELSE IF ~isMainnet
  THEN /\ log' = Pushed(log, Entry("Switch to Ethereum Mainnet first.", "", ""))
       /\ UNCHANGED << busy, txHash, tasks >>
  ELSE /\ HasFree
       /\ busy' = TRUE
       /\ txHash' = Null
       /\ tasks' = [tasks EXCEPT ![FreeSlot] = Task("mint", "getSigner")]
       /\ UNCHANGED log

\* (mutant) the catch without the finally
MintFailedNoFinally(i, e) ==
  /\ log' = Pushed(log, Entry("Mint failed", humanizeEthersError(e), ""))
  /\ UNCHANGED busy
  /\ tasks' = [tasks EXCEPT ![i] = Idle]

\* catch (e) { push(`Mint failed: ...`) } finally { setBusy(false) }
MintFailed(i, e) ==
  /\ log' = Pushed(log, Entry("Mint failed", humanizeEthersError(e), ""))
  /\ busy' = FALSE
  /\ tasks' = [tasks EXCEPT ![i] = Idle]

\* provider.getSigner() answers: a signer when the wallet exposes an account
MintSigner(i) ==
  /\ tasks[i].op = "mint"
  /\ tasks[i].pc = "getSigner"
  /\ IF wAcc # Null
     THEN /\ tasks' = [tasks EXCEPT ![i].pc = "MINT_PRICE"]
          /\ UNCHANGED << log, busy >>
     ELSE MintFailed(i, ErrOther)
  /\ UNCHANGED << page, ethereum, finder, snapshot, cache, txHash, wallet, contract, nTx, budget >>

\* (mutant) the value is the price the page had cached
MintValueStale(price) == mintPriceWei

\* the value mint() attaches to mintOracleVision, from the price just read
MintValue(price) == price

\* (mutant) mint() does not store the price it read
MintCachedKept(price) == mintPriceWei

\* setMintPriceWei(price): what mint() leaves in the cache
MintCached(price) == price

\* (mutant) the hash is not recorded when the call returns
SentHashDropped(hash) == txHash

\* setTxHash(tx.hash): what mint() records once the call has returned tx
SentHash(hash) == hash

\* c.MINT_PRICE() answers: setMintPriceWei(price), then the payable call
\* c.mintOracleVision({ value: price }) goes out
MintPrice(i) ==
  /\ tasks[i].op = "mint"
  /\ tasks[i].pc = "MINT_PRICE"
  /\ \/ /\ mintPriceWei' = MintCached(cPrice)
        /\ log' = Pushed(log, Entry("Minting", formatEther(cPrice), ""))
        /\ tasks' = [tasks EXCEPT ![i].pc = "mintOracleVision",
                                  ![i].value = MintValue(cPrice)]
        /\ UNCHANGED busy
     \/ /\ MintFailed(i, ErrOther)
        /\ UNCHANGED mintPriceWei
  /\ UNCHANGED << page, ethereum, finder, snapshot, collectionName, symbol, txHash, wallet,
                  contract, nTx, budget >>

\* (mutant) a rejected call also clears the cached price
MintSendClearsPrice(i) ==
  /\ tasks[i].op = "mint"
  /\ tasks[i].pc = "mintOracleVision"
  /\ \/ /\ nTx' = nTx + 1
        /\ txHash' = SentHash("0xtx" \o ToString(nTx + 1))
        /\ log' = Pushed(log, Entry("Tx sent", "0xtx" \o ToString(nTx + 1), ""))
        /\ tasks' = [tasks EXCEPT ![i].pc = "wait",
                                  ![i].hash = "0xtx" \o ToString(nTx + 1)]
        /\ UNCHANGED << busy, mintPriceWei >>
     \/ \E e \in Errors :
          /\ MintFailed(i, e)
          /\ mintPriceWei' = NoPrice
          /\ UNCHANGED << nTx, txHash >>
  /\ UNCHANGED << page, ethereum, finder, snapshot, collectionName, symbol, wallet, contract,
                  budget >>

\* mintOracleVision answers: the wallet submitted the transaction
\* (setTxHash(tx.hash), then tx.wait()), or the call was rejected
MintSend(i) ==
  /\ tasks[i].op = "mint"
  /\ tasks[i].pc = "mintOracleVision"
  /\ \/ /\ nTx' = nTx + 1
        /\ txHash' = SentHash("0xtx" \o ToString(nTx + 1))
        /\ log' = Pushed(log, Entry("Tx sent", "0xtx" \o ToString(nTx + 1), ""))
        /\ tasks' = [tasks EXCEPT ![i].pc = "wait",
                                  ![i].hash = "0xtx" \o ToString(nTx + 1)]
        /\ UNCHANGED busy
     \/ \E e \in Errors :
          /\ MintFailed(i, e)
          /\ UNCHANGED << nTx, txHash >>
  /\ UNCHANGED << page, ethereum, finder, snapshot, cache, wallet, contract, budget >>

\* the chain mines the transaction tx.wait() is waiting for: its receipt
\* has status 1 (success) or 0 (reverted)
TxMined(i) ==
  /\ tasks[i].pc = "wait"
  /\ tasks[i].receipt = NoReceipt
  /\ \E s \in Receipts \ {NoReceipt} : tasks' = [tasks EXCEPT ![i].receipt = s]
  /\ UNCHANGED << page, ethereum, finder, snapshot, cache, busy, txHash, log, wallet, contract,
                  nTx, budget >>

\* what tx.wait() of ethers resolves with: the receipt of a transaction that
\* succeeded, or null; for a reverted transaction (status 0) it rejects
WaitResolvesWith == Receipts \ {0}

\* (mutant) any answer of tx.wait() is taken for a receipt
ReceiptEntryUnchecked(receipt) == Entry("Success", "block", "")

\* if (!receipt) push("Tx sent, but receipt not found yet.")
\* else push(`Success ... Block: ${receipt.blockNumber}`)
ReceiptEntry(receipt) ==
  IF receipt = NoReceipt
  THEN Entry("Tx sent, but receipt not found yet.", "", "")
  ELSE Entry("Success", "block", "")

\* (mutant) the end of the attempt clears the hash shown
MintWaitClearsHash(i) ==
  /\ tasks[i].op = "mint"
  /\ tasks[i].pc = "wait"
  /\ \/ /\ tasks[i].receipt \in WaitResolvesWith
        /\ log' = Pushed(log, ReceiptEntry(tasks[i].receipt))
        /\ busy' = FALSE
        /\ tasks' = [tasks EXCEPT ![i] = Idle]
     \/ MintFailed(i, ErrOther)
  /\ txHash' = Null
  /\ UNCHANGED << page, ethereum, finder, snapshot, cache, wallet, contract, nTx, budget >>

\* tx.wait() answers: it resolves with the receipt or with null, or it
\* rejects (a reverted transaction, a replaced one, a transport error)
MintWait(i) ==
  /\ tasks[i].op = "mint"
  /\ tasks[i].pc = "wait"
  /\ \/ /\ tasks[i].receipt \in WaitResolvesWith
        /\ log' = Pushed(log, ReceiptEntry(tasks[i].receipt))
        /\ busy' = FALSE
        /\ tasks' = [tasks EXCEPT ![i] = Idle]
     \/ MintFailed(i, ErrOther)
  /\ UNCHANGED << page, ethereum, finder, snapshot, cache, txHash, wallet, contract, nTx, budget >>

----------------------------------------------------------------------------
(* The listeners the mount effect registers                                *)

\* onAccounts(accs): accs?.[0] ?? null, Null standing for an empty list
onAccounts(a) ==
  /\ account' = a
  /\ log' = Pushed(log, Entry("Account changed",
                              IF a # Null THEN shortAddr(a) ELSE "Disconnected", ""))
  /\ loadContractReads
  /\ UNCHANGED chainId

\* (mutant) the listener does not re-fetch the reads
onChainNoRefetch(cid) ==
  /\ chainId' = cid
  /\ log' = Pushed(log, Entry("Network changed", cid, ""))
  /\ UNCHANGED << account, tasks >>

\* onChain(cid)
onChain(cid) ==
  /\ chainId' = cid
  /\ log' = Pushed(log, Entry("Network changed", cid, ""))
  /\ loadContractReads
  /\ UNCHANGED account

\* (mutant) a delivered event also resets the attempt's display state
DeliverEventResets ==
  /\ evq # << >>
  /\ evq' = Tail(evq)
  /\ IF Head(evq).type = "accountsChanged"
     THEN onAccounts(Head(evq).val)
     ELSE onChain(Head(evq).val)
  /\ busy' = FALSE
  /\ txHash' = Null
  /\ UNCHANGED << page, ethereum, finder, cache, wAcc, wChain, contract, nTx, budget >>

\* the provider delivers its oldest pending event to the page
DeliverEvent ==
  /\ evq # << >>
  /\ evq' = Tail(evq)
  /\ IF Head(evq).type = "accountsChanged"
     THEN onAccounts(Head(evq).val)
     ELSE onChain(Head(evq).val)
  /\ UNCHANGED << page, ethereum, finder, cache, busy, txHash, wAcc, wChain, contract, nTx, budget >>

----------------------------------------------------------------------------
(* What happens outside the page                                           *)

Env == nEnv < MaxEnv /\ nEnv' = nEnv + 1

\* the user switches or disconnects the account in the wallet
WalletAccounts ==
  /\ ethereum /\ Env /\ CanEmit
  /\ \E a \in (Accounts \cup {Null}) \ {wAcc} :
       /\ wAcc' = a
       /\ evq' = Append(evq, Event("accountsChanged", a))
  /\ UNCHANGED << page, ethereum, finder, snapshot, cache, busy, txHash, log, tasks, wChain,
                  contract, nTx, nCmd >>

\* the user switches the network in the wallet
WalletChain ==
  /\ ethereum /\ Env /\ CanEmit
  /\ \E c \in Chains \ {wChain} :
       /\ wChain' = c
       /\ evq' = Append(evq, Event("chainChanged", c))
  /\ UNCHANGED << page, ethereum, finder, snapshot, cache, busy, txHash, log, tasks, wAcc,
                  contract, nTx, nCmd >>

\* the contract's MINT_PRICE changes
PriceChange ==
  /\ ethereum /\ Env
  /\ \E p \in Prices \ {cPrice} : cPrice' = p
  /\ UNCHANGED << page, ethereum, finder, snapshot, cache, busy, txHash, log, tasks, wallet,
                  cName, cSymbol, nTx, nCmd >>

----------------------------------------------------------------------------
(* The commands, as the page's buttons issue them: a disabled or hidden    *)
(* button issues nothing                                                   *)

Cmd == nCmd < MaxCmd /\ nCmd' = nCmd + 1

ConnectEnabled == ~isConnected /\ hasProvider /\ ~busy
\* (mutant) the Switch button without disabled={busy}
SwitchEnabledNoBusy == isConnected /\ ~isMainnet
SwitchEnabled == isConnected /\ ~isMainnet /\ ~busy
ReadyEnabled == isConnected /\ isMainnet /\ ~busy
\* (mutants) the Mint button's disabled expression without `busy`, and
\* without `mintPriceWei == null`
MintEnabledNoBusy == ~(~isConnected \/ ~isMainnet \/ mintPriceWei = NoPrice)
MintEnabledNoPrice == ~(~isConnected \/ ~isMainnet \/ busy)
MintEnabled == ~(~isConnected \/ ~isMainnet \/ busy \/ mintPriceWei = NoPrice)
RefreshEnabled == ~busy
ClearLogEnabled == ~busy

ConnectCall ==
  /\ Cmd /\ connect
  /\ UNCHANGED << page, ethereum, finder, snapshot, cache, txHash, wallet, contract, nTx, nEnv >>

SwitchCall ==
  /\ Cmd /\ switchToMainnet
  /\ UNCHANGED << page, ethereum, finder, snapshot, cache, txHash, log, wallet, contract, nTx, nEnv >>

MintCall ==
  /\ Cmd /\ mint
  /\ UNCHANGED << page, ethereum, finder, snapshot, cache, wallet, contract, nTx, nEnv >>

RefreshCall ==
  /\ Cmd /\ loadContractReads
  /\ UNCHANGED << page, ethereum, finder, snapshot, cache, busy, txHash, log, wallet, contract, nTx, nEnv >>

ConnectClick == ConnectEnabled /\ ConnectCall
SwitchClick == SwitchEnabled /\ SwitchCall
MintClick == MintEnabled /\ MintCall
RefreshClick == RefreshEnabled /\ RefreshCall

\* the "Connected" button: push("Wallet + network ready.")
ReadyClick ==
  /\ ReadyEnabled /\ Cmd
  /\ log' = Pushed(log, Entry("Wallet + network ready.", "", ""))
  /\ UNCHANGED << page, ethereum, finder, snapshot, cache, busy, txHash, tasks, wallet, contract, nTx, nEnv >>

\* the "Clear Log" button: setLog([])
ClearLogClick ==
  /\ ClearLogEnabled /\ Cmd
  /\ log' = << >>
  /\ UNCHANGED << page, ethereum, finder, snapshot, cache, busy, txHash, tasks, wallet, contract, nTx, nEnv >>

----------------------------------------------------------------------------
(* One provider or contract response is handled                            *)
RespondAt(i) ==
  \/ RefreshAccounts(i) \/ RefreshChainId(i)
  \/ LoadSigner(i) \/ LoadReads(i)
  \/ ConnectAccounts(i) \/ ConnectChainId(i)
  \/ SwitchAnswer(i)
  \/ MintSigner(i) \/ MintPrice(i) \/ MintSend(i) \/ TxMined(i) \/ MintWait(i)

Respond == \E i \in Slots : RespondAt(i)

Outside == DeliverEvent \/ WalletAccounts \/ WalletChain \/ PriceChange

(* The page as a user drives it *)
Next ==
  \/ ConnectClick \/ SwitchClick \/ MintClick \/ RefreshClick
  \/ ReadyClick \/ ClearLogClick
  \/ Respond \/ Outside

Spec == Init /\ [][Next]_vars

(* The operations called in any state, whatever the buttons show *)
NextCall ==
  \/ ConnectCall \/ SwitchCall \/ MintCall \/ RefreshCall
  \/ ReadyClick \/ ClearLogClick
  \/ Respond \/ Outside

SpecCall == Init /\ [][NextCall]_vars

(* The page as a user drives it, when every provider and contract call is  *)
(* eventually answered: the call a function in flight awaits resolves or   *)
(* rejects.                                                                *)
SpecFair == Init /\ [][Next]_vars /\ \A i \in Slots : WF_vars(RespondAt(i))

(* The page as a user drives it, for a contract whose name() and symbol()  *)
(* may also return empty strings                                           *)
InitMeta == Mounted(Metadata, {"0xA11CE00000000000000000000000000000000001"})
SpecMeta == InitMeta /\ [][Next]_vars


----------------------------------------------------------------------------
(* The log on its own: pushes onto logs of every length up to the bound,   *)
(* kept in full. An entry's b field is its timestamp: "old<k>" for the     *)
(* k-th newest entry the log starts with, the push's number for a new one. *)

MaxPush == 4
LogPages == {"console", "mintV1", "mintV2"}

PagePush(l, e) ==
  IF page = "console" THEN push(l, e)
  ELSE IF page = "mintV1" THEN logV1(l, e)
  ELSE pushV2(l, e)

PageCap == IF page = "console" THEN LogCap
           ELSE IF page = "mintV1" THEN LogCapV1 ELSE LogCapV2

\* a log that n earlier pushes have filled
Filled(n) == [k \in 1..n |-> Entry("old", "", "old" \o ToString(k))]

InitLog ==
  /\ page \in LogPages
  /\ FinderState
  /\ ethereum = TRUE
  /\ account = Null /\ chainId = Null
  /\ collectionName = Dash /\ symbol = Dash /\ mintPriceWei = NoPrice
  /\ busy = FALSE /\ txHash = Null
  /\ log \in {Filled(n) : n \in {0, PageCap - 1, PageCap}}
  /\ tasks = [i \in Slots |-> Idle]
  /\ wAcc = Null /\ wChain = ETH_MAINNET_CHAIN_ID_HEX /\ evq = << >>
  /\ cName = "" /\ cSymbol = "" /\ cPrice = 0
  /\ nTx = 0 /\ nCmd = 0 /\ nEnv = 0

\* one call of the page's push / log function
LogPush ==
  /\ nCmd < MaxPush
  /\ nCmd' = nCmd + 1
  /\ \E m \in {"MetaMask not found.", "Connect your wallet first."} :
       log' = PagePush(log, Entry(m, "", ToString(nCmd)))
  /\ UNCHANGED << page, ethereum, finder, snapshot, cache, busy, txHash, tasks, wallet,
                  contract, nTx, nEnv >>

NextLog == LogPush \/ (page = "console" /\ ClearLogClick)

SpecLog == InitLog /\ [][NextLog]_vars


----------------------------------------------------------------------------
(* The third mint page of src/app/mint/page.tsx (lines 551-1107): its      *)
(* mint(), which tries four mint signatures in turn. Its state is held in  *)
(* the same variables: account ("" is Null), chainId (a number, Undefined  *)
(* before the first refresh), busy (isMinting), txHash (lastTx, "" is      *)
(* Null) and log, whose one entry is the page's status line.               *)

REQUIRED_CHAIN_ID_DEC == 1
Undefined == 0                 \* chainId: number | undefined

\* Number.parseInt(hexId, 16) and Number(net.chainId), over Chains
ChainNumber(hex) == IF hex = "0x1" THEN 1 ELSE 5

isOnMainnet == chainId = REQUIRED_CHAIN_ID_DEC

setStatus(m) == log' = << Entry(m, "", "") >>

\* the payable calls mint() tries, in the order it tries them
MintSignatures == << "mint()", "mint(1)", "safeMint()", "safeMint(account)" >>
SigIndex(p) == CHOOSE k \in 1..Len(MintSignatures) : MintSignatures[k] = p
IsSignature(p) == \E k \in 1..Len(MintSignatures) : MintSignatures[k] = p

\* the page once its mount effect has run, refresh() having resolved or not
InitV3 ==
  /\ page = "mintV3"
  /\ FinderState
  /\ ethereum = TRUE
  /\ wAcc \in {"0xA11CE00000000000000000000000000000000001", Null}
  /\ wChain \in Chains
  /\ \E refreshed \in BOOLEAN :
       /\ account = IF refreshed THEN wAcc ELSE Null
       /\ chainId = IF refreshed THEN ChainNumber(wChain) ELSE Undefined
       /\ log = << Entry(IF refreshed /\ wAcc # Null THEN "Connected"
                         ELSE "Not connected", "", "") >>
  /\ collectionName = Dash /\ symbol = Dash /\ mintPriceWei = NoPrice
  /\ busy = FALSE /\ txHash = Null
  /\ tasks = [i \in Slots |-> Idle]
  /\ evq = << >>
  /\ cName = "" /\ cSymbol = "" /\ cPrice = 10
  /\ nTx = 0 /\ nCmd = 0 /\ nEnv = 0

\* setIsMinting(true); setStatus("Preparing mint…"); setLastTx(""); then
\* provider.getSigner() goes out
PrepareMint(i) ==
  /\ busy' = TRUE
  /\ setStatus("Preparing mint...")
  /\ txHash' = Null
  /\ tasks' = [tasks EXCEPT ![i] = Task("mintV3", "getSigner")]

\* the synchronous start of mint(), ensureMainnet() included
mintV3 ==
  IF ~ethereum
  THEN /\ setStatus("No wallet provider available.")
       /\ UNCHANGED << busy, txHash, tasks >>
  ELSE IF account = Null
  THEN /\ setStatus("Connect wallet first.")
       /\ UNCHANGED << busy, txHash, tasks >>
  ELSE /\ HasFree
       /\ IF chainId = REQUIRED_CHAIN_ID_DEC
          THEN PrepareMint(FreeSlot)
          ELSE /\ setStatus("Switching to Ethereum Mainnet...")
               /\ tasks' = [tasks EXCEPT ![FreeSlot] =
                              Task("mintV3", "wallet_switchEthereumChain")]
               /\ UNCHANGED << busy, txHash >>

MintV3Enabled == ~(account = Null \/ busy \/ ~ethereum)

MintV3Click ==
  /\ MintV3Enabled /\ Cmd /\ mintV3
  /\ UNCHANGED << page, ethereum, finder, snapshot, cache, wallet, contract, nTx, nEnv >>

\* ensureMainnet(): wallet_switchEthereumChain answers
EnsureMainnetAnswer(i) ==
  /\ tasks[i].op = "mintV3"
  /\ tasks[i].pc = "wallet_switchEthereumChain"
  /\ \/ /\ IF wChain = ETH_MAINNET_CHAIN_ID_HEX
           THEN UNCHANGED wallet
           ELSE /\ CanEmit
                /\ wChain' = ETH_MAINNET_CHAIN_ID_HEX
                /\ evq' = Append(evq, Event("chainChanged", ETH_MAINNET_CHAIN_ID_HEX))
                /\ UNCHANGED wAcc
        /\ PrepareMint(i)
     \/ \E e \in {ErrUser4001, ErrOther} :
          /\ setStatus(e.msg)
          /\ tasks' = [tasks EXCEPT ![i] = Idle]
          /\ UNCHANGED << busy, txHash, wallet >>
  /\ UNCHANGED << page, ethereum, finder, snapshot, cache, contract, nTx, budget >>

\* catch (e) { setStatus(e.shortMessage || ...) } finally { setIsMinting(false) }
MintV3Throws(i, e) ==
  /\ setStatus(e.msg)
  /\ busy' = FALSE
  /\ tasks' = [tasks EXCEPT ![i] = Idle]

\* provider.getSigner() answers; with a signer the first payable call,
\* contract.mint({ value }), goes out
MintV3Signer(i) ==
  /\ tasks[i].op = "mintV3"
  /\ tasks[i].pc = "getSigner"
  /\ IF wAcc # Null
     THEN /\ tasks' = [tasks EXCEPT ![i].pc = MintSignatures[1]]
          /\ UNCHANGED << log, busy >>
     ELSE MintV3Throws(i, ErrOther)
  /\ UNCHANGED << page, ethereum, finder, snapshot, cache, txHash, wallet, contract, nTx, budget >>

\* the signature tried after the k-th was rejected (0: none is left)
NextSignature(k) == IF k < Len(MintSignatures) THEN k + 1 ELSE 0

\* a payable call answers: a transaction, or a rejection, which mint()
\* swallows (tx = null) and answers with the next signature
MintV3Attempt(i) ==
  /\ tasks[i].op = "mintV3"
  /\ IsSignature(tasks[i].pc)
  /\ \/ /\ nTx' = nTx + 1
        /\ txHash' = "0xtx" \o ToString(nTx + 1)
        /\ setStatus("Transaction sent. Waiting for confirmation...")
        /\ tasks' = [tasks EXCEPT ![i].pc = "wait",
                                  ![i].hash = "0xtx" \o ToString(nTx + 1)]
        /\ UNCHANGED busy
     \/ /\ LET n == NextSignature(SigIndex(tasks[i].pc)) IN
           IF n # 0
           THEN /\ tasks' = [tasks EXCEPT ![i].pc = MintSignatures[n]]
                /\ UNCHANGED << log, busy >>
           ELSE /\ setStatus("Mint call failed.")
                /\ busy' = FALSE
                /\ tasks' = [tasks EXCEPT ![i] = Idle]
        /\ UNCHANGED << nTx, txHash >>
  /\ UNCHANGED << page, ethereum, finder, snapshot, cache, wallet, contract, budget >>

\* if (receipt?.status === 1) setStatus("Mint confirmed ...")
\* else setStatus("Transaction failed or reverted.")
ReceiptStatus(receipt) ==
  IF receipt # NoReceipt /\ receipt = 1
  THEN "Mint confirmed"
  ELSE "Transaction failed or reverted."

\* tx.wait() answers: it resolves with the receipt or with null, or throws
MintV3Wait(i) ==
  /\ tasks[i].op = "mintV3"
  /\ tasks[i].pc = "wait"
  /\ \/ /\ tasks[i].receipt \in WaitResolvesWith
        /\ setStatus(ReceiptStatus(tasks[i].receipt))
        /\ busy' = FALSE
        /\ tasks' = [tasks EXCEPT ![i] = Idle]
     \/ MintV3Throws(i, ErrOther)
  /\ UNCHANGED << page, ethereum, finder, snapshot, cache, txHash, wallet, contract, nTx, budget >>

\* the page's listeners: onAccounts and onChain
DeliverEventV3 ==
  /\ evq # << >>
  /\ evq' = Tail(evq)
  /\ IF Head(evq).type = "accountsChanged"
     THEN /\ account' = Head(evq).val
          /\ setStatus(IF Head(evq).val # Null THEN "Connected" ELSE "Not connected")
          /\ UNCHANGED chainId
     ELSE /\ chainId' = ChainNumber(Head(evq).val)
          /\ UNCHANGED << account, log >>
  /\ UNCHANGED << page, ethereum, finder, cache, busy, txHash, tasks, wAcc, wChain, contract,
                  nTx, budget >>

RespondV3 ==
  \E i \in Slots :
    \/ EnsureMainnetAnswer(i) \/ MintV3Signer(i)
    \/ MintV3Attempt(i) \/ TxMined(i) \/ MintV3Wait(i)

NextV3 ==
  \/ MintV3Click
  \/ RespondV3
  \/ DeliverEventV3 \/ WalletAccounts \/ WalletChain

SpecV3 == InitV3 /\ [][NextV3]_vars

----------------------------------------------------------------------------
(* Steps, as the properties below recognise them                           *)

\* task i issues the payable call c.mintOracleVision({ value })
IssuesPayable(i) ==
  /\ tasks[i].op = "mint" /\ tasks[i].pc = "MINT_PRICE"
  /\ tasks'[i].op = "mint" /\ tasks'[i].pc = "mintOracleVision"

\* a mint attempt starts in slot i
StartsMint(i) == tasks[i].op # "mint" /\ tasks'[i].op = "mint"

\* the provider delivers an event to its listener
Delivers == evq # << >> /\ evq' = Tail(evq)

\* a loadContractReads() call starts
StartsReads ==
  \E i \in Slots : IsFree(i) /\ tasks'[i] = Task("loadContractReads", "getSigner")

MintTasks == {i \in Slots : tasks[i].op = "mint"}
NewestIs(m) == log # << >> /\ Head(log).msg = m

----------------------------------------------------------------------------
(* C1: mint() never issues the payable call while the snapshot's chainId   *)
(* differs from the required chain 0x1.                                    *)
C1_PayableCallOnlyOnMainnet ==
  [][\A i \in Slots : IssuesPayable(i) => chainId = ETH_MAINNET_CHAIN_ID_HEX]_vars

MintPreconditionViolated ==
  ~isConnected \/ ~isMainnet \/ busy \/ mintPriceWei = NoPrice

C3_MintFailsFast ==
  [][(ethereum /\ MintPreconditionViolated /\ MintCall) =>
       /\ log' # << >> /\ log' = Pushed(log, Head(log'))
       /\ tasks' = tasks /\ busy' = busy /\ txHash' = txHash
       /\ collectionName' = collectionName /\ symbol' = symbol
       /\ mintPriceWei' = mintPriceWei]_vars

(* C4: the value attached to mintOracleVision is the price the MINT_PRICE  *)
(* read of the same mint() returned, not a price cached earlier.           *)
C4_ValueIsFreshPrice ==
  [][\A i \in Slots : IssuesPayable(i) => tasks'[i].value = cPrice]_vars

\* the call is out with a value that differs from the price the page had
\* logged for its cache just before
C4_Witness ==
  /\ \E i \in Slots : /\ tasks[i].op = "mint" /\ tasks[i].pc = "mintOracleVision"
                      /\ tasks[i].value = cPrice
                      /\ Len(log) >= 2
                      /\ log[1] = Entry("Minting", formatEther(tasks[i].value), "")
                      /\ log[2].msg = "Mint price"
                      /\ log[2].a # log[1].a

(* C5: when the payable call is issued, its value equals the mintPriceWei  *)
(* the cache holds at that moment.                                         *)
C5_ValueIsCachedPrice ==
  [][\A i \in Slots : IssuesPayable(i) => tasks'[i].value = mintPriceWei']_vars

\* the call is out while an event-triggered read refresh is in flight
C5_Witness ==
  \E i, j \in Slots :
    /\ tasks[i].op = "mint" /\ tasks[i].pc = "mintOracleVision"
    /\ tasks[i].value = mintPriceWei
    /\ tasks[j].op = "loadContractReads"
    /\ NewestIs("Network changed")

(* C6: the transaction hash is recorded, and "Tx sent" logged, when the    *)
(* call returns, before the receipt wait; it is set while the attempt      *)
(* waits and stays set when the wait ends, also by failing.                *)
C6_HashRecordedBeforeWait ==
  /\ [](\A i \in Slots : (tasks[i].op = "mint" /\ tasks[i].pc = "wait") =>
          (txHash # Null /\ txHash = tasks[i].hash))
  /\ [][\A i \in Slots :
          /\ (tasks[i].pc = "mintOracleVision" /\ tasks'[i].pc = "wait") =>
               (txHash' = tasks'[i].hash /\ txHash' # Null
                /\ log' = Pushed(log, Entry("Tx sent", txHash', "")))
          /\ (tasks[i].pc = "wait" /\ tasks'[i].pc # "wait") =>
               txHash' = txHash]_vars

\* the wait has failed and the hash of the sent transaction is still shown
C6_Witness ==
  /\ ~busy /\ txHash # Null /\ MintTasks = {}
  /\ Len(log) >= 2 /\ log[1].msg = "Mint failed" /\ log[2].msg = "Tx sent"
  /\ log[2].a = txHash

(* C7: a loadContractReads() whose reads do not all resolve leaves the     *)
(* three cached fields as they were and logs the failure; one whose reads  *)
(* all resolve stores all three. The cache is never partially updated.     *)
C7_ReadsAllOrNothing ==
  [][\A i \in Slots :
       (tasks[i].pc = "reads" /\ tasks'[i].pc # "reads") =>
         \/ /\ log' = Pushed(log, Entry("Contract read failed", Head(log').a, ""))
            /\ collectionName' = collectionName /\ symbol' = symbol
            /\ mintPriceWei' = mintPriceWei
         \/ /\ Head(log') = Entry("Mint price", formatEther(cPrice), "")
            /\ collectionName' = OrDash(cName) /\ symbol' = OrDash(cSymbol)
            /\ mintPriceWei' = cPrice]_vars

\* a refresh has failed and the cache still holds the earlier price, which
\* is no longer the contract's
C7_Witness ==
  /\ NewestIs("Contract read failed")
  /\ mintPriceWei # NoPrice /\ mintPriceWei # cPrice
  /\ collectionName # Dash

(* C8 as claimed: a delivered accountsChanged or chainChanged event        *)
(* updates the snapshot, resets the cached reads and starts a re-fetch.    *)
C8_EventResetsCache ==
  [][Delivers =>
       /\ IF Head(evq).type = "accountsChanged"
          THEN account' = Head(evq).val ELSE chainId' = Head(evq).val
       /\ collectionName' = Dash /\ symbol' = Dash /\ mintPriceWei' = NoPrice
       /\ StartsReads]_vars

(* C8 as amended: a delivered event updates the snapshot, appends its      *)
(* StatusEvent, keeps the cached reads as they are and starts a re-fetch.  *)
C8_EventKeepsCacheAndRefetches ==
  [][Delivers =>
       /\ IF Head(evq).type = "accountsChanged"
          THEN account' = Head(evq).val /\ chainId' = chainId
          ELSE chainId' = Head(evq).val /\ account' = account
       /\ Head(log').msg = IF Head(evq).type = "accountsChanged"
                           THEN "Account changed" ELSE "Network changed"
       /\ collectionName' = collectionName /\ symbol' = symbol
       /\ mintPriceWei' = mintPriceWei
       /\ StartsReads]_vars

\* a chain change has just been handled: the cache is still populated and
\* the re-fetch is in flight
C8_Witness ==
  /\ NewestIs("Network changed") /\ chainId # ETH_MAINNET_CHAIN_ID_HEX
  /\ mintPriceWei # NoPrice /\ collectionName # Dash
  /\ \E i \in Slots : tasks[i] = Task("loadContractReads", "getSigner")

(* C9: no mint attempt starts in a state where chainId differs from 0x1,   *)
(* the wallet is not connected, an operation is busy or no price is        *)
(* cached.                                                                 *)
C9_MintDisabledUnlessReady ==
  [][(\E i \in Slots : StartsMint(i)) =>
       (account # Null /\ chainId = ETH_MAINNET_CHAIN_ID_HEX /\ ~busy
        /\ mintPriceWei # NoPrice)]_vars

\* only the chain keeps the user from minting
C9_Witness ==
  /\ isConnected /\ chainId = "0x5" /\ ~busy /\ mintPriceWei # NoPrice
  /\ HasFree /\ nCmd < MaxCmd

(* C10: after accountsChanged with an empty list, and until connect() or   *)
(* a later accountsChanged supplies an account (each logs when it does),   *)
(* account is null, the status is "Not connected" and mint is disabled.    *)
C10_DisconnectHolds ==
  (log # << >> /\ Head(log) = Entry("Account changed", "Disconnected", "")) =>
    (account = Null /\ status = "Not connected" /\ ~MintEnabled)

(* C11: an event delivered while a mint attempt is in flight leaves busy,  *)
(* txHash and the attempt where they are; an attempt ends only by its own  *)
(* outcome, which it logs.                                                 *)
C11_EventLeavesAttempt ==
  [][\A i \in Slots :
       /\ (Delivers /\ tasks[i].op = "mint") =>
            (busy' = busy /\ txHash' = txHash /\ tasks'[i] = tasks[i])
       /\ (tasks[i].op = "mint" /\ tasks'[i].op # "mint") =>
            /\ ~Delivers
            /\ log' # << >>
            /\ Head(log').msg \in {"Mint failed", "Success",
                                   "Tx sent, but receipt not found yet."}]_vars

\* the network changed while the attempt waits for its receipt: the page
\* is still busy and shows the hash
C11_Witness ==
  /\ \E i \in Slots : tasks[i].op = "mint" /\ tasks[i].pc = "wait"
  /\ NewestIs("Network changed") /\ chainId # ETH_MAINNET_CHAIN_ID_HEX
  /\ busy /\ txHash # Null

\* some field of the controller's state changes in this step
ControllerChanges ==
  \/ snapshot' # snapshot \/ cache' # cache
  \/ busy' # busy \/ txHash' # txHash

(* C12: every step that changes account, chainId, the read cache, busy,    *)
(* the attempt or txHash appends exactly one entry to the log.             *)
C12_OneEventPerTransition ==
  [][ControllerChanges =>
       (log' # << >> /\ log' # log /\ log' = Pushed(log, Head(log')))]_vars

(* C13: the log never holds more than its page's bound (30, 25, 20); a     *)
(* push puts the new entry first, keeps the older entries in their order   *)
(* one place down, and drops only what falls beyond the bound.             *)
C13_LogNewestFirstBounded ==
  /\ [](Len(log) <= IF page = "console" THEN 30
                    ELSE IF page = "mintV2" THEN 25 ELSE 20)
  /\ [][(log' # log /\ log' # << >>) =>
          /\ log'[1].b = ToString(nCmd)
          /\ Len(log') = IF page = "console" /\ Len(log) < 30 THEN Len(log) + 1
                         ELSE IF page = "mintV2" /\ Len(log) < 25 THEN Len(log) + 1
                         ELSE IF page = "mintV1" /\ Len(log) < 20 THEN Len(log) + 1
                         ELSE Len(log)
          /\ \A k \in 2..Len(log') : log'[k] = log[k - 1]]_vars

\* two pushes onto a full console log: the two oldest entries are gone
C13_Witness ==
  /\ page = "console" /\ Len(log) = 30
  /\ log[1].b = "1" /\ log[2].b = "0"
  /\ log[30].b = "old28"

(* C14: without a provider the status reads "MetaMask not found", connect  *)
(* only logs "MetaMask not found.", and no operation issues a request or   *)
(* touches account, chainId, busy or the read cache.                       *)
C14_NoProviderNoCalls ==
  /\ [](~ethereum =>
          /\ status = "MetaMask not found"
          /\ \A i \in Slots : IsFree(i)
          /\ account = Null /\ chainId = Null /\ ~busy
          /\ collectionName = Dash /\ symbol = Dash /\ mintPriceWei = NoPrice)
  /\ [][(~ethereum /\ ConnectCall) =>
          log' = Pushed(log, Entry("MetaMask not found.", "", ""))]_vars

\* connect() and one more command have been called without a provider
C14_Witness ==
  /\ ~ethereum /\ nCmd = MaxCmd
  /\ log = << Entry("MetaMask not found.", "", "") >>

\* connect() in slot i ends in this step by a rejected request
ConnectFails(i) ==
  /\ tasks[i].op = "connect"
  /\ tasks[i].pc \in {"eth_requestAccounts", "eth_chainId"}
  /\ tasks'[i].op # "connect"

(* C15: when eth_requestAccounts and eth_chainId have both resolved,       *)
(* connect() stores the returned account and chain and goes on to the read *)
(* refresh; busy stays set until that refresh has settled.                 *)
C15_ConnectRecordsAndRefreshes ==
  /\ [](\A i \in Slots : tasks[i].op = "connect" => busy)
  /\ [][\A i \in Slots :
          /\ (tasks[i].op = "connect" /\ tasks[i].pc = "eth_requestAccounts"
              /\ tasks'[i].op = "connect" /\ tasks'[i] # tasks[i]) =>
               (tasks'[i].acc = wAcc' /\ tasks'[i].acc # Null)
          /\ (tasks[i].op = "connect" /\ tasks[i].pc = "eth_chainId"
              /\ tasks'[i] # tasks[i]) =>
               \/ /\ ConnectFails(i)
                  /\ log' # << >> /\ Head(log').msg = "Connect failed"
               \/ /\ account' = tasks[i].acc /\ chainId' = wChain
                  /\ tasks'[i] = Task("connect", "getSigner")
                  /\ busy'
          /\ (tasks[i].op = "connect" /\ tasks'[i].op # "connect"
              /\ ~ConnectFails(i)) =>
               (tasks[i].pc = "reads" /\ ~busy')]_vars

\* connect() has stored the snapshot and its read refresh is in flight
C15_Witness ==
  /\ \E i \in Slots : tasks[i].op = "connect" /\ tasks[i].pc = "reads"
  /\ account = wAcc /\ account # Null /\ chainId = wChain /\ busy
  /\ Len(log) = 2 /\ log[1].msg = "Chain" /\ log[2].msg = "Connected"

(* C16: a connect() whose account or chain request is rejected leaves      *)
(* account, chainId and the read cache as they were, appends one           *)
(* "Connect failed" entry and clears busy.                                 *)
C16_ConnectFailureFrame ==
  [][\A i \in Slots :
       /\ (tasks[i].op = "connect" /\ tasks[i].pc = "eth_requestAccounts"
           /\ tasks'[i] # tasks[i]) =>
            (snapshot' = snapshot /\ cache' = cache)
       /\ ConnectFails(i) =>
            /\ snapshot' = snapshot /\ cache' = cache
            /\ ~busy'
            /\ log' # << >>
            /\ log' = Pushed(log, Entry("Connect failed", Head(log').a, ""))
            /\ Head(log').a \in {"User rejected the transaction.", ErrOther.msg}]_vars

\* the user declined the connection request
C16_Witness ==
  /\ log # << >>
  /\ Head(log) = Entry("Connect failed", "User rejected the transaction.", "")
  /\ account = Null /\ ~busy
  /\ \A i \in Slots : tasks[i].op # "connect"

\* switchToMainnet() in slot i finishes in this step, its switch request
\* having succeeded
SwitchFinishes(i) ==
  /\ tasks[i].op = "switchToMainnet" /\ tasks[i].pc = "reads"
  /\ tasks'[i].op # "switchToMainnet"

(* C17 as claimed: once a switchToMainnet() whose switch request succeeded *)
(* finishes, chainId is 0x1 and the page is connected and ready.           *)
C17_SwitchEndsReady ==
  [][\A i \in Slots :
       SwitchFinishes(i) =>
         (chainId' = ETH_MAINNET_CHAIN_ID_HEX /\ account' # Null /\ ~busy')]_vars

(* C17 as amended: a switchToMainnet() whose switch request succeeded logs *)
(* it and re-reads the wallet; when both re-reads resolve the snapshot     *)
(* takes the account and the chain the wallet reports, and when one is     *)
(* rejected the snapshot stays as it was; busy is cleared, and nothing     *)
(* else changed, when the read refresh that follows has settled.           *)
C17_SwitchRereadsWallet ==
  /\ [](\A i \in Slots : tasks[i].op = "switchToMainnet" => busy)
  /\ [][\A i \in Slots :
          /\ (tasks[i].op = "switchToMainnet" /\ tasks'[i] # tasks[i]
              /\ tasks[i].pc = "wallet_switchEthereumChain") =>
               \/ /\ tasks'[i] = Idle /\ ~busy'
                  /\ log' # << >> /\ Head(log').msg = "Switch failed"
                  /\ wChain' = wChain /\ snapshot' = snapshot
               \/ /\ tasks'[i].pc = "eth_accounts" /\ busy'
                  /\ wChain' = ETH_MAINNET_CHAIN_ID_HEX
                  /\ log' = Pushed(log, Entry("Switched to Ethereum Mainnet.", "", ""))
          /\ (tasks[i].op = "switchToMainnet" /\ tasks'[i] # tasks[i]
              /\ tasks[i].pc = "eth_chainId") =>
               /\ tasks'[i] = Task("switchToMainnet", "getSigner")
               /\ \/ account' = tasks[i].acc /\ chainId' = wChain /\ log' = log
                  \/ /\ snapshot' = snapshot
                     /\ log' # << >> /\ Head(log').msg = "refreshWalletState error"
          /\ SwitchFinishes(i) => (~busy' /\ snapshot' = snapshot)]_vars

\* the switch has finished and the page is ready although the chainChanged
\* event has not been delivered yet: the re-read set chainId
C17_Witness ==
  /\ Len(log) = 2
  /\ log[1].msg = "Contract read failed"
  /\ log[2].msg = "Switched to Ethereum Mainnet."
  /\ chainId = ETH_MAINNET_CHAIN_ID_HEX /\ isConnected /\ ~busy
  /\ status = "Ready (ETH mainnet)"
  /\ evq # << >>
  /\ \A i \in Slots : IsFree(i)

\* the awaits at which a payable call of a mint() is out
PayableCalls == {"mintOracleVision"} \cup
                {MintSignatures[k] : k \in 1..Len(MintSignatures)}

(* C18: no operation retries: a mint() whose payable call has answered,    *)
(* by a transaction or by a rejection, issues no further payable call.     *)
C18_NoSecondPayableCall ==
  [][\A i \in Slots :
       (tasks[i].pc \in PayableCalls /\ tasks'[i] # tasks[i]) =>
         tasks'[i].pc \notin PayableCalls]_vars

\* the payable call of the attempt in slot i is rejected in this step
PayableRejected(i) ==
  /\ tasks[i].op = "mint" /\ tasks[i].pc = "mintOracleVision"
  /\ tasks'[i].op # "mint"

(* C19: a payable call the user rejects (code 4001, or "user rejected" in  *)
(* the message in any letter case) ends the attempt with the entry         *)
(* "Mint failed: User rejected the transaction.", never with the raw       *)
(* message; busy is cleared and the Mint button is enabled again on a      *)
(* connected page on mainnet.                                              *)
C19_UserRejectionFailsAttempt ==
  /\ [](\A k \in 1..Len(log) : log[k].a \notin {ErrUser4001.msg, ErrUserText.msg})
  /\ [][\A i \in Slots :
          PayableRejected(i) =>
            /\ ~busy' /\ txHash' = txHash
            /\ log' # << >>
            /\ log' = Pushed(log, Entry("Mint failed", Head(log').a, ""))
            /\ Head(log').a \in {"User rejected the transaction.", ErrOther.msg}
            /\ (isConnected /\ isMainnet) => MintEnabled']_vars

\* the user has rejected the prompt and may click Mint again
C19_Witness ==
  /\ log # << >>
  /\ Head(log) = Entry("Mint failed", "User rejected the transaction.", "")
  /\ MintEnabled /\ HasFree /\ nCmd < MaxCmd

(* C20 as claimed: an attempt the user rejects leaves mintPriceWei as it   *)
(* was when mint() was invoked, whatever its price re-read returned: no    *)
(* step of the attempt, up to and including the rejection, changes it.     *)
C20_RejectedMintKeepsPrice ==
  [][\A i \in Slots :
       (tasks[i].op = "mint" /\ tasks'[i] # tasks[i]) =>
         mintPriceWei' = mintPriceWei]_vars

(* C20 as amended: the rejection leaves the read cache as it is, and what  *)
(* it is by then is the price the attempt's own re-read returned and       *)
(* attached to the call.                                                   *)
C20_RejectionKeepsRereadPrice ==
  [][\A i \in Slots :
       /\ IssuesPayable(i) =>
            (mintPriceWei' = cPrice /\ tasks'[i].value = cPrice)
       /\ PayableRejected(i) => cache' = cache]_vars

\* the user has rejected an attempt whose re-read found the price changed
\* to 0: the cache holds the re-read price
C20_Witness ==
  /\ Len(log) = 2
  /\ log[1] = Entry("Mint failed", "User rejected the transaction.", "")
  /\ log[2] = Entry("Minting", formatEther(0), "")
  /\ mintPriceWei = 0 /\ cPrice = 0

----------------------------------------------------------------------------
(* The Bull Finder home page (src/unnamed/part_003): runScan(), which asks *)
(* /api/scan for signals and falls back to the synthetic ones. A signal is *)
(* held as its symbol. An answer of fetch() or of res.json() first arrives *)
(* (the res of the scan) and is then handled by the code after the await.  *)

\* useState symbols "BTC,ETH,SOL", split, trimmed and upper-cased
symbolList == << "BTC", "ETH", "SOL" >>
\* synthSignals(): one signal per symbol of symbolList
synthSignals == symbolList

\* the answers: a rejection with e.message (possibly none), the response
\* of fetch with its ok flag, and the parsed body of res.json()
Rejected(m) == [NoAnswer EXCEPT !.kind = "rejected", !.msg = m]
Response(ok) == [NoAnswer EXCEPT !.kind = "response", !.ok = ok]
Data(shape, items) == [NoAnswer EXCEPT !.kind = "data", !.shape = shape, !.items = items]
FetchErrors == {"Failed to fetch", ""}
JsonErrors == {"Unexpected token < in JSON"}

\* the bodies: a raw array, {signals: [...]}, {items: [...]}, {} ("empty"),
\* null, and {signals: 7} ("scalar"); an item is held as its symbol
\* (x.symbol ?? x.ticker ?? x.s ?? ""), and Null is an item that is null
ItemLists == {<< >>, << "DOGE" >>, << "" >>, << Null >>, << "DOGE", "" >>}
Payloads ==
  {Data(sh, its) : sh \in {"array", "signals", "items"}, its \in ItemLists}
    \cup {Data("empty", << >>), Data("null", << >>), Data("scalar", << >>)}

\* const arr = Array.isArray(data) ? data : (data?.signals ?? data?.items ?? [])
ArrOf(d) == IF d.shape \in {"array", "signals", "items"} THEN d.items ELSE << >>
\* if (!Array.isArray(arr) || arr.length === 0)
NoArray(d) == d.shape = "scalar" \/ Len(ArrOf(d)) = 0
\* arr.map((x) => ... x.symbol ...) throws a TypeError on an item that is null
MapThrows(arr) == \E k \in 1..Len(arr) : arr[k] = Null
HasSymbol(x) == x # ""
\* .filter((x) => x.symbol)
normalized(arr) == SelectSeq(arr, HasSymbol)
\* e?.message ? String(e.message) : "Scan failed."
ErrTextOf(m) == IF m # "" THEN m ELSE "Scan failed."

consoleVars == << page, ethereum, snapshot, cache, busy, txHash, log, tasks, wallet,
                  contract, nTx, budget >>

\* the page once its mount effect has run: the initial runScan() is in flight
InitScan ==
  /\ page = "bullFinder"
  /\ ethereum = TRUE
  /\ account = Null /\ chainId = Null
  /\ collectionName = Dash /\ symbol = Dash /\ mintPriceWei = NoPrice
  /\ busy = FALSE /\ txHash = Null /\ log = << >>
  /\ tasks = [i \in Slots |-> Idle]
  /\ wAcc = Null /\ wChain = "0x1" /\ evq = << >>
  /\ cName = "" /\ cSymbol = "" /\ cPrice = 10
  /\ nTx = 0 /\ nCmd = 0 /\ nEnv = 0
  /\ running = TRUE
  /\ errText = ""
  /\ lastRun = NeverRun
  /\ signals = << >>
  /\ scans = [i \in ScanSlots |-> IF i = 1 THEN [pc |-> "fetch", res |-> NoAnswer]
                                   ELSE NoScan]
  /\ now = 1

\* runScan() is called: setRunning(true); setErrText(""); fetch goes out
runScan ==
  \E i \in ScanSlots :
    /\ scans[i].pc = "idle"
    /\ \A j \in ScanSlots : j < i => scans[j].pc # "idle"
    /\ running' = TRUE
    /\ errText' = ""
    /\ scans' = [scans EXCEPT ![i] = [pc |-> "fetch", res |-> NoAnswer]]
    /\ UNCHANGED << lastRun, signals, now >>

\* the Run button, disabled while running
RunClick == ~running /\ runScan /\ UNCHANGED consoleVars

\* the auto-refresh interval and the telemetry panel's Run Scan button call
\* runScan() whatever running is
AutoScan == runScan /\ UNCHANGED consoleVars

\* the quiet fallback: setSignals(synthSignals()); setLastRun(nowIso());
\* setRunning(false); return (and the finally)
ScanFallback(i) ==
  /\ signals' = synthSignals
  /\ lastRun' = now
  /\ running' = FALSE
  /\ scans' = [scans EXCEPT ![i] = NoScan]
  /\ UNCHANGED errText

\* (mutant) the catch records the error and nothing else
ScanCaughtOnlyText(i, m) ==
  /\ errText' = ErrTextOf(m)
  /\ running' = FALSE
  /\ scans' = [scans EXCEPT ![i] = NoScan]
  /\ UNCHANGED << signals, lastRun >>

\* catch (e) { setErrText(...); setSignals(synthSignals());
\* setLastRun(nowIso()) } finally { setRunning(false) }
ScanCaught(i, m) ==
  /\ errText' = ErrTextOf(m)
  /\ signals' = synthSignals
  /\ lastRun' = now
  /\ running' = FALSE
  /\ scans' = [scans EXCEPT ![i] = NoScan]

\* /api/scan answers the fetch, or the fetch fails
FetchSettles(i) ==
  /\ scans[i].pc = "fetch" /\ scans[i].res.kind = "none"
  /\ \E r \in {Rejected(m) : m \in FetchErrors} \cup {Response(TRUE), Response(FALSE)} :
       scans' = [scans EXCEPT ![i].res = r]
  /\ UNCHANGED << running, errText, lastRun, signals, now >>
  /\ UNCHANGED consoleVars

\* the code after `await fetch(...)`, up to `await res.json()`
AfterFetch(i) ==
  /\ scans[i].pc = "fetch" /\ scans[i].res.kind # "none"
  /\ IF scans[i].res.kind = "rejected" THEN ScanCaught(i, scans[i].res.msg)
     ELSE IF ~scans[i].res.ok THEN ScanFallback(i)
     ELSE /\ scans' = [scans EXCEPT ![i] = [pc |-> "json", res |-> NoAnswer]]
          /\ UNCHANGED << running, errText, lastRun, signals >>
  /\ UNCHANGED now
  /\ UNCHANGED consoleVars

\* the body has been read: it parses to one of Payloads, or it is not JSON
JsonSettles(i) ==
  /\ scans[i].pc = "json" /\ scans[i].res.kind = "none"
  /\ \E r \in Payloads \cup {Rejected(m) : m \in JsonErrors} :
       scans' = [scans EXCEPT ![i].res = r]
  /\ UNCHANGED << running, errText, lastRun, signals, now >>
  /\ UNCHANGED consoleVars

\* the code after `await res.json()`
AfterJson(i) ==
  /\ scans[i].pc = "json" /\ scans[i].res.kind # "none"
  /\ LET d == scans[i].res IN
     IF d.kind = "rejected" THEN ScanCaught(i, d.msg)
     ELSE IF NoArray(d) THEN ScanFallback(i)
     ELSE IF MapThrows(ArrOf(d))
     THEN ScanCaught(i, "Cannot read properties of null (reading 'symbol')")
     ELSE /\ signals' = IF Len(normalized(ArrOf(d))) > 0 THEN normalized(ArrOf(d))
                         ELSE synthSignals
          /\ lastRun' = now
          /\ running' = FALSE
          /\ scans' = [scans EXCEPT ![i] = NoScan]
          /\ UNCHANGED errText
  /\ UNCHANGED now
  /\ UNCHANGED consoleVars

\* time passes
Tick ==
  /\ now < MaxNow
  /\ now' = now + 1
  /\ UNCHANGED << running, errText, lastRun, signals, scans >>
  /\ UNCHANGED consoleVars

NextScan ==
  \/ RunClick \/ AutoScan \/ Tick
  \/ \E i \in ScanSlots :
       FetchSettles(i) \/ AfterFetch(i) \/ JsonSettles(i) \/ AfterJson(i)

SpecScan == InitScan /\ [][NextScan]_vars

----------------------------------------------------------------------------
\* a step in which the async function of slot i returns
Ends(i) == tasks[i].op # "idle" /\ tasks'[i].op = "idle"

\* the functions that set busy, and the entries each can end with
BusyOps == {"connect", "switchToMainnet", "mint"}
LastEntries(op) ==
  IF op = "connect" THEN {"Mint price", "Contract read failed", "Connect failed"}
  ELSE IF op = "switchToMainnet"
  THEN {"Mint price", "Contract read failed", "Switch failed"}
  ELSE IF op = "mint"
  THEN {"Success", "Tx sent, but receipt not found yet.", "Mint failed"}
  ELSE IF op = "loadContractReads" THEN {"Mint price", "Contract read failed"}
  ELSE {"refreshWalletState error"}

(* C21: every rejection of a provider or contract call inside connect(),   *)
(* switchNetwork(), refreshReads(), refreshWalletState() or mint() is      *)
(* caught inside that operation: the step that handles an answer either    *)
(* moves the operation on or ends it, an operation that ends has logged    *)
(* one of its own closing entries (refreshWalletState, which is silent on  *)
(* success, logs on failure), and an operation that had set busy leaves    *)
(* it false whichever way it ends, while the others never touch it.        *)
C21_ErrorsCaughtBusyCleared ==
  [][\A i \in Slots :
       /\ Ends(i) =>
            /\ tasks[i].op \in BusyOps => ~busy'
            /\ tasks[i].op \notin BusyOps => busy' = busy
            /\ tasks[i].op # "refreshWalletState" =>
                 (log' # << >> /\ Head(log').msg \in LastEntries(tasks[i].op))
            /\ tasks[i].op = "refreshWalletState" =>
                 \/ log' = log
                 \/ Head(log').msg \in LastEntries(tasks[i].op) /\ snapshot' = snapshot
       /\ (tasks[i].op \in BusyOps /\ tasks'[i].op # "idle") =>
            (tasks'[i].op = tasks[i].op /\ busy')]_vars

\* a mint whose wait() rejected after the transaction was mined as reverted
\* has ended with its failure entry and busy cleared
C21_Witness ==
  /\ ~busy /\ txHash # Null
  /\ \A i \in Slots : IsFree(i)
  /\ Len(log) = 2
  /\ log[1] = Entry("Mint failed", "execution reverted", "")
  /\ log[2].msg = "Tx sent"

MintRank(pc) ==
  IF pc = "getSigner" THEN 1
  ELSE IF pc = "MINT_PRICE" THEN 2
  ELSE IF pc = "mintOracleVision" THEN 3
  ELSE 4

(* C23: a mint attempt only moves forward (signer, price, signature,       *)
(* submitted, then ended) and stays busy until it ends; once submitted its *)
(* transaction hash is neither cleared nor replaced, not even when the     *)
(* attempt ends; and busy is cleared under a running attempt, or txHash    *)
(* reset for a new attempt, only by that attempt ending or when no attempt *)
(* is in flight.                                                           *)
C23_AttemptMonotonic ==
  [][/\ \A i \in Slots :
          tasks[i].op = "mint" =>
            /\ tasks'[i].op \in {"mint", "idle"}
            /\ tasks'[i].op = "mint" =>
                 /\ MintRank(tasks'[i].pc) >= MintRank(tasks[i].pc)
                 /\ busy /\ busy'
            /\ tasks'[i].op = "idle" => ~busy'
            /\ tasks[i].pc = "wait" =>
                 /\ txHash = tasks[i].hash /\ txHash' = txHash
                 /\ tasks'[i].op = "mint" => tasks'[i].hash = tasks[i].hash
            /\ tasks[i].pc # "wait" => txHash = Null
     /\ ((\E j \in Slots : StartsMint(j)) \/ (txHash # Null /\ txHash' = Null)) =>
          (MintTasks = {} /\ ~busy /\ busy' /\ txHash' = Null)]_vars

\* a second attempt has been submitted: the hash shown is its own, the
\* first attempt's hash having been cleared when the second one started
C23_Witness ==
  /\ nTx = 2 /\ busy /\ txHash = "0xtx2"
  /\ \E i \in Slots :
       /\ tasks[i].op = "mint" /\ tasks[i].pc = "wait"
       /\ tasks[i].hash = "0xtx2" /\ tasks[i].receipt = 1

\* the loadContractReads() call of slot i returns, its reads having settled
ReadsSettle(i) ==
  /\ tasks[i].op = "loadContractReads" /\ tasks[i].pc = "reads"
  /\ Ends(i)

(* C24: refreshReads() is idempotent on the cache, and every call appends  *)
(* exactly one entry to the log: a call that finds the cache already       *)
(* holding what the contract returns leaves the cache as it is, and the    *)
(* log after any call is the log before it with one entry pushed.          *)
C24_RefreshIdempotentOneEntry ==
  [][\A i \in Slots :
       ReadsSettle(i) =>
         /\ cache = << OrDash(cName), OrDash(cSymbol), cPrice >> => cache' = cache
         /\ log' # << >>
         /\ log' = Pushed(log, Head(log'))]_vars

\* the reads of connect() (slot i), or of a refreshReads() after it, have
\* all resolved
ReadsResolve(i) ==
  /\ tasks[i].op \in {"connect", "loadContractReads"} /\ tasks[i].pc = "reads"
  /\ Ends(i)
  /\ Head(log').msg = "Mint price"

(* C25 as claimed: connect() followed by refreshReads() yields a cache     *)
(* whose collectionName, symbol and mintPriceWei equal what name(),        *)
(* symbol() and MINT_PRICE() returned, whatever they returned, an empty    *)
(* name or symbol and a zero price included.                               *)
C25_CacheEqualsReads ==
  [][\A i \in Slots :
       ReadsResolve(i) =>
         (collectionName' = cName /\ symbol' = cSymbol /\ mintPriceWei' = cPrice)]_vars

(* C25 as amended: the cache holds the price as returned, zero included,   *)
(* and the name and symbol as returned unless they are empty: an empty     *)
(* name or symbol is stored as the placeholder dash.                       *)
C25_CacheEqualsReadsOrDash ==
  [][\A i \in Slots :
       ReadsResolve(i) =>
         /\ collectionName' = (IF cName = "" THEN Dash ELSE cName)
         /\ symbol' = (IF cSymbol = "" THEN Dash ELSE cSymbol)
         /\ mintPriceWei' = cPrice
         /\ mintPriceWei' # NoPrice]_vars

\* connected, and the reads have returned an empty name and symbol and a
\* zero price: the cache shows the dash and the price 0
C25_Witness ==
  /\ account # Null /\ cName = "" /\ cSymbol = "" /\ cPrice = 0
  /\ Len(log) = 2
  /\ log[1] = Entry("Mint price", formatEther(0), "")
  /\ log[2] = Entry("Loaded contract", "", "")
  /\ collectionName = Dash /\ symbol = Dash /\ mintPriceWei = 0

\* the runScan() call of slot i returns
ScanEnds(i) == scans[i].pc # "idle" /\ scans'[i].pc = "idle"
\* the fetch of slot i has thrown
FetchThrew(i) == scans[i].pc = "fetch" /\ scans[i].res.kind = "rejected"
\* something has thrown inside the try of slot i: the fetch, res.json() on a
\* body that is not JSON, or the mapping of an item that is null
ScanThrew(i) ==
  \/ scans[i].res.kind = "rejected"
  \/ /\ scans[i].res.kind = "data"
     /\ \E k \in 1..Len(scans[i].res.items) : scans[i].res.items[k] = Null
\* the cases of the fallback: a response that is not OK, a thrown error, a
\* body with no array or an empty one, or with no item that has a symbol
ScanFallsBack(i) ==
  \/ ScanThrew(i)
  \/ scans[i].res.kind = "response" /\ ~scans[i].res.ok
  \/ /\ scans[i].res.kind = "data"
     /\ \A k \in 1..Len(scans[i].res.items) : scans[i].res.items[k] = ""

(* C26 as claimed: whatever /api/scan does, a runScan() that returns       *)
(* leaves running false and lastRun set; in each fallback case the signals *)
(* are the synthetic ones; and errText is set only when the fetch threw:   *)
(* on every other path it is left as it is.                                *)
C26_ScanEndsUsable ==
  [][\A i \in ScanSlots :
       ScanEnds(i) =>
         /\ ~running' /\ lastRun' = now /\ lastRun' # NeverRun
         /\ ScanFallsBack(i) => signals' = synthSignals
         /\ FetchThrew(i) => errText' # ""
         /\ ~FetchThrew(i) => errText' = errText]_vars

(* C26 as amended: the same, with errText set on every path on which       *)
(* something threw inside the try (the fetch, res.json() on a malformed    *)
(* body, the mapping of a malformed item) and on no other; the only other  *)
(* change of errText is its reset to "" when runScan() starts.             *)
C26_ScanEndsUsableErrOnThrow ==
  [][/\ \A i \in ScanSlots :
          ScanEnds(i) =>
            /\ ~running' /\ lastRun' = now /\ lastRun' # NeverRun
            /\ ScanFallsBack(i) => signals' = synthSignals
            /\ ScanThrew(i) => errText' # ""
            /\ ~ScanThrew(i) => errText' = errText
     /\ errText' # errText =>
          \/ errText' = "" /\ running'
          \/ \E i \in ScanSlots : ScanEnds(i) /\ ScanThrew(i)]_vars

\* a scan whose response was OK and whose body was not JSON has ended: the
\* page shows the synthetic signals, a scan time and the error text
C26_Witness ==
  /\ ~running /\ lastRun # NeverRun /\ signals = synthSignals
  /\ errText = "Unexpected token < in JSON"
  /\ \A i \in ScanSlots : scans[i].pc = "idle"

\* the refreshWalletState() of slot i writes the snapshot
RefreshWrites(i) ==
  /\ tasks[i].pc = "eth_chainId" /\ tasks'[i].pc # "eth_chainId"
  /\ log' = log

(* C27: an answer to eth_accounts / eth_chainId that arrives after a newer *)
(* accountsChanged or chainChanged event was handled does not overwrite    *)
(* what the event stored: a refreshWalletState() that writes the snapshot  *)
(* when every event emitted has been handled writes the wallet's current   *)
(* account; and once nothing is pending (no call in flight, no event       *)
(* undelivered) an account shown is the wallet's current one.              *)
C27_StaleAnswerKeepsSnapshot ==
  /\ [][\A i \in Slots :
          (RefreshWrites(i) /\ evq = << >>) => account' = wAcc]_vars
  /\ []((evq = << >> /\ \A i \in Slots : IsFree(i)) =>
          (account # Null => account = wAcc))

(* C28: there is no timeout. A connect(), switchToMainnet() or mint() in   *)
(* flight is moved only by the answer to the call it awaits, never by a    *)
(* command, an event or a change outside; busy is cleared only by the step *)
(* in which one of them returns; and while busy is set the Connect,        *)
(* Switch, Mint and Refresh buttons are disabled. So an unanswered call    *)
(* leaves the page busy for ever. Conversely, when every call is           *)
(* eventually answered, every function in flight eventually returns and    *)
(* busy is eventually false.                                               *)
C28_NoTimeout ==
  /\ [](busy => (~ConnectEnabled /\ ~SwitchEnabled /\ ~MintEnabled /\ ~RefreshEnabled))
  /\ [][/\ (busy /\ ~busy') => \E i \in Slots : tasks[i].op \in BusyOps /\ Ends(i)
        /\ \A i \in Slots :
             (tasks[i].op \in BusyOps /\ tasks'[i] # tasks[i]) =>
               (budget' = budget /\ ~Delivers)]_vars
  /\ \A i \in Slots : (tasks[i].op # "idle") ~> (tasks[i].op = "idle")
  /\ busy ~> ~busy

\* connect() still awaits eth_requestAccounts after the user changed the
\* network in the wallet and the event was handled: the page is still busy
C28_Witness ==
  /\ busy /\ ~RefreshEnabled /\ ~ConnectEnabled
  /\ \E i \in Slots : tasks[i] = Task("connect", "eth_requestAccounts")
  /\ NewestIs("Network changed") /\ evq = << >>

\* the slots in which connect(), switchToMainnet() or mint() is in flight
BusyTasks == {i \in Slots : tasks[i].op \in BusyOps}

(* C29: with each of connect(), switchToMainnet() and mint() invoked only  *)
(* while its button is enabled, at most one of the three is in flight,     *)
(* busy is true exactly while one is, so that busy is never cleared under  *)
(* a running operation; and the read refreshes that events trigger, like   *)
(* every step of loadContractReads() or refreshWalletState() on its own,   *)
(* leave busy as it is.                                                    *)
C29_BusySharedByOne ==
  /\ [](Cardinality(BusyTasks) <= 1 /\ (busy <=> BusyTasks # {}))
  /\ [][/\ Delivers => busy' = busy
        /\ \A i \in Slots :
             (tasks[i].op \in {"loadContractReads", "refreshWalletState"}
              /\ tasks'[i] # tasks[i]) => busy' = busy
        /\ \A i \in Slots :
             (~busy' /\ tasks[i].op \in BusyOps) => Ends(i)]_vars

\* a mint attempt is in flight and the read refresh that a chainChanged
\* event started is in flight beside it: the page is busy
C29_Witness ==
  /\ busy /\ NewestIs("Network changed")
  /\ \E i, j \in Slots :
       /\ tasks[i].op = "mint"
       /\ tasks[j].op = "loadContractReads"

(* C30: the transaction shown belongs to the most recent mint attempt and *)
(* the price cache never goes blank: a mint() that passes its checks       *)
(* clears txHash in the step that starts it, before any call goes out; a   *)
(* txHash that is set is the hash of the newest transaction submitted, and *)
(* an attempt in flight is then the one that submitted it; and no step     *)
(* takes mintPriceWei from a value back to null.                           *)
C30_HashOfLatestPriceKept ==
  /\ [](txHash # Null =>
          /\ nTx > 0 /\ txHash = "0xtx" \o ToString(nTx)
          /\ \A i \in MintTasks : tasks[i].pc = "wait" /\ tasks[i].hash = txHash)
  /\ [][/\ \A i \in Slots :
             StartsMint(i) => (txHash' = Null /\ tasks'[i].pc = "getSigner")
        /\ mintPriceWei # NoPrice => mintPriceWei' # NoPrice]_vars

\* a second attempt is about to issue its payable call: the hash of the
\* first attempt's transaction is no longer shown
C30_Witness ==
  /\ nTx = 1 /\ txHash = Null /\ busy
  /\ mintPriceWei # NoPrice
  /\ \E i \in Slots : tasks[i].op = "mint" /\ tasks[i].pc = "mintOracleVision"

====
